---- MODULE Spec2Model ----
(***************************************************************************)
(* A model of dkp_discord_bot.py: the Postgres store (users, pins,         *)
(* pin_redemptions, loot_auctions, bids, loot_awards) and the command      *)
(* handlers that read and write it.  Every handler runs on a connection of *)
(* its own; a handler is a process whose steps are its SQL statements.     *)
(* Statements outside conn.transaction() commit on their own; statements   *)
(* inside are pending (tx[p]) until the COMMIT step, hold the row locks    *)
(* they took until then, and are invisible to the other connections        *)
(* (READ COMMITTED, the default isolation level of asyncpg).               *)
(***************************************************************************)
EXTENDS Integers, Sequences, FiniteSets, TLC

\* ---------------------------------------------------------------- bounds
MaxProcs == 2                 \* concurrent command handlers (besides the sweeper)
MaxTime == 2                  \* the clock runs 0..MaxTime
MaxAuctions == 2              \* loot_auctions rows ever inserted
Users == {1, 2, 3}            \* discord ids
Codes == {1, 2}               \* PIN code strings
PointValues == {1, 2}         \* points of a PIN (override or event type points)
PinDurations == {1}           \* duration_minutes of pin_create (Range 1..1440)
Styles == {"blind", "fixed", "zerosum"}
MinBids == {1}                \* min_bid of loot_start
Increments == {1}             \* increment of loot_start
AuctionDurations == {0, 1}    \* duration_minutes of loot_start (0: manual close)
BidAmounts == {1, 2}          \* amount of /bid
InitBalance == 2              \* dkp every user holds when the auctions begin

Sweeper == 0
Slots == 1..MaxProcs
Procs == {Sweeper} \cup Slots
AuctionIds == 1..MaxAuctions
NoTime == -1                  \* expires_at IS NULL

VARIABLES
  now,          \* utcnow() / now()
  dkp,          \* users.dkp
  pins,         \* pins, by code
  redemptions,  \* pin_redemptions rows, in insertion order
  auctions,     \* loot_auctions rows; the id is the index
  bids,         \* bids rows of each auction, in created_at order
  quota,        \* the scenario: the slots that serve commands, the auctions
                \* that are started, the users who send commands, the codes
                \* that are issued, whether `placed` is kept
  awards,       \* loot_awards rows of each auction, in insertion order
  pc,           \* where each handler stands
  loc,          \* each handler's local variables
  tx,           \* each connection's open transaction: locks and pending writes
  ledger,       \* history: the committed balance changes of each settlement
  placed        \* history: the (user, amount) pairs /bid has stored for each
                \* auction, in the order in which each was first stored

vars == <<now, dkp, pins, redemptions, auctions, bids, quota, awards,
          pc, loc, tx, ledger, placed>>

\* ------------------------------------------------------------ helpers
RECURSIVE SumOver(_, _)
SumOver(f, S) ==
  IF S = {} THEN 0
  ELSE LET x == CHOOSE y \in S : TRUE IN f[x] + SumOver(f, S \ {x})

RECURSIVE SeqSum(_)
SeqSum(s) == IF s = <<>> THEN 0 ELSE Head(s) + SeqSum(Tail(s))

\* The sequence s without its k-th element.
DropAt(s, k) == SubSeq(s, 1, k - 1) \o SubSeq(s, k + 1, Len(s))

NoPin == [found |-> FALSE, points |-> 0, expires_at |-> 0, active |-> FALSE]
NoAuction == [id |-> 0, status |-> "none"]
NoBid == [id |-> <<0, 0, 0>>, auction_id |-> 0, user_id |-> 0, amount |-> 0]

ZeroDelta == [u \in Users |-> 0]

\* An open transaction: the users rows it locked, its pending changes of dkp,
\* the bids rows it deleted, the loot_auctions rows it set to 'closed', the
\* loot_awards rows it inserted, and (history) the balance changes it made.
NoTx == [active |-> FALSE, users |-> {}, delta |-> ZeroDelta, bidDel |-> {},
         closes |-> {}, awards |-> <<>>, events |-> <<>>]

NoLoc == [user |-> 0, code |-> 0, chan |-> 0, amount |-> 0, pin |-> NoPin,
          a |-> NoAuction, bids |-> <<>>, win |-> NoBid, amt |-> 0, bal |-> 0,
          li |-> 0, rows |-> <<>>, ret |-> "", outcome |-> "", conflict |-> FALSE]

\* A row lock on users.discord_id = u is free for p: no other transaction holds it.
UserLockFree(u, p) == \A q \in Procs \ {p} : u \notin tx[q].users

\* The row lock on loot_auctions.id = c is free for p.
AuctionLockFree(c, p) == \A q \in Procs \ {p} : c \notin tx[q].closes

\* The row of bid id b is not being deleted by another open transaction.
BidLockFree(b, p) == \A q \in Procs \ {p} : b \notin tx[q].bidDel

\* ------------------------------------------------------------ the clock
\* Time shows only in the expiry tests (expires_at < now): the clock moves
\* on to the next instant at which one of them can differ, the earliest
\* expiry still ahead of a PIN or of an open auction, and from that instant
\* to just past it.
Pending ==
  {pins[c].expires_at : c \in {d \in Codes : pins[d].found}}
    \cup {auctions[i].expires_at :
            i \in {j \in 1..Len(auctions) : auctions[j].status = "open"}}

Ahead == {t \in Pending : t >= now}

Tick ==
  /\ Ahead # {}
  /\ LET next == CHOOSE t \in Ahead : \A x \in Ahead : t <= x
     IN now' = IF next > now THEN next ELSE next + 1
  /\ now' <= MaxTime
  /\ UNCHANGED <<dkp, pins, redemptions, auctions, bids, quota, placed, awards,
                 pc, loc, tx, ledger>>

\* ------------------------------------------------------------ ensure_user
\* INSERT ... ON CONFLICT DO UPDATE on the user's row, on a connection of its
\* own: it waits for the row lock and commits at once.  A user without a row
\* reads as dkp 0 after it (DEFAULT 0), which is how dkp starts here.
EnsureUser(p, u) == UserLockFree(u, p)

\* ------------------------------------------------------------ pin_create
\* Inserts the pin unless the code exists (UniqueViolationError: no change).
PinInsert(code, pts, duration) ==
  IF pins[code].found
  THEN pins
  ELSE [pins EXCEPT ![code] = [found |-> TRUE, points |-> pts,
                               expires_at |-> now + duration, active |-> TRUE]]

PinCreate ==
  /\ \E code \in 1..quota.codes, pts \in PointValues,
        duration \in PinDurations :
       /\ ~pins[code].found
       /\ pins' = PinInsert(code, pts, duration)
  /\ UNCHANGED <<now, dkp, redemptions, auctions, bids, quota, placed, awards,
                 pc, loc, tx, ledger>>

\* ------------------------------------------------------------ pin_revoke
\* UPDATE pins SET active=FALSE WHERE code=UPPER($1): one statement, committed
\* at once.  (On a code that does not exist or is inactive nothing changes.)
PinDeactivate(code) ==
  IF pins[code].found THEN [pins EXCEPT ![code].active = FALSE] ELSE pins

PinRevoke ==
  /\ \E code \in Codes :
       /\ pins[code].found /\ pins[code].active
       /\ pins' = PinDeactivate(code)
  /\ UNCHANGED <<now, dkp, redemptions, auctions, bids, quota, placed, awards,
                 pc, loc, tx, ledger>>

\* ------------------------------------------------------------ redeem
\* A handler starts in the lowest idle slot (the slots are interchangeable).
CanStart(p) ==
  /\ p \in 1..quota.slots
  /\ pc[p] = "idle"
  /\ \A q \in Slots : q < p => pc[q] # "idle"

RedeemStart(p) ==
  /\ CanStart(p)
  /\ \E u \in 1..quota.users, code \in 1..quota.codes :
       loc' = [loc EXCEPT ![p] = [NoLoc EXCEPT !.user = u, !.code = code]]
  /\ pc' = [pc EXCEPT ![p] = "rd_ensure"]
  /\ UNCHANGED <<now, dkp, pins, redemptions, auctions, bids, quota, placed,
                 awards, tx, ledger>>

RedeemEnsureUser(p) ==
  /\ pc[p] = "rd_ensure"
  /\ EnsureUser(p, loc[p].user)
  /\ pc' = [pc EXCEPT ![p] = "rd_fetch"]
  /\ UNCHANGED <<now, dkp, pins, redemptions, auctions, bids, quota, placed,
                 awards, loc, tx, ledger>>

\* SELECT ... FROM pins WHERE code=$1; not found or not active: "Invalid".
RedeemFetchPin(p) ==
  /\ pc[p] = "rd_fetch"
  /\ LET row == pins[loc[p].code] IN
       IF ~row.found \/ ~row.active
       THEN /\ pc' = [pc EXCEPT ![p] = "done"]
            /\ loc' = [loc EXCEPT ![p].outcome = "invalid"]
       ELSE /\ pc' = [pc EXCEPT ![p] = "rd_expiry"]
            /\ loc' = [loc EXCEPT ![p].pin = row]
  /\ UNCHANGED <<now, dkp, pins, redemptions, auctions, bids, quota, placed,
                 awards, tx, ledger>>

\* if pin_row["expires_at"] < utcnow(): "This PIN has expired."
PinExpired(row, t) == row.expires_at < t

RedeemCheckExpiry(p) ==
  /\ pc[p] = "rd_expiry"
  /\ IF PinExpired(loc[p].pin, now)
     THEN /\ pc' = [pc EXCEPT ![p] = "done"]
          /\ loc' = [loc EXCEPT ![p].outcome = "expired"]
     ELSE /\ pc' = [pc EXCEPT ![p] = "rd_existing"]
          /\ loc' = loc
  /\ UNCHANGED <<now, dkp, pins, redemptions, auctions, bids, quota, placed,
                 awards, tx, ledger>>

\* A SELECT that never finds the pair's row.
NeverRedeemed(code, u) == FALSE

HasRedemption(code, u) ==
  \E i \in 1..Len(redemptions) :
    redemptions[i].pin = code /\ redemptions[i].user_id = u

\* BEGIN; SELECT 1 FROM pin_redemptions ...: sees the committed rows only.
RedeemSelectExisting(p) ==
  /\ pc[p] = "rd_existing"
  /\ IF HasRedemption(loc[p].code, loc[p].user)
     THEN /\ pc' = [pc EXCEPT ![p] = "done"]
          /\ loc' = [loc EXCEPT ![p].outcome = "already"]
          /\ tx' = tx
     ELSE /\ pc' = [pc EXCEPT ![p] = "rd_award"]
          /\ loc' = loc
          /\ tx' = [tx EXCEPT ![p].active = TRUE]
  /\ UNCHANGED <<now, dkp, pins, redemptions, auctions, bids, quota, placed,
                 awards, ledger>>

\* UPDATE users SET dkp = dkp + points: takes the user's row lock (waits for
\* it), the new value is pending until COMMIT.
RedeemAward(p) ==
  /\ pc[p] = "rd_award"
  /\ UserLockFree(loc[p].user, p)
  /\ tx' = [tx EXCEPT ![p].users = @ \cup {loc[p].user},
                      ![p].delta[loc[p].user] = @ + loc[p].pin.points]
  /\ pc' = [pc EXCEPT ![p] = "rd_insert"]
  /\ UNCHANGED <<now, dkp, pins, redemptions, auctions, bids, quota, placed,
                 awards, loc, ledger>>

\* A failed redeem whose credit stays: what the rollback excludes.
KeptCredit(p, u) == tx[p].delta[u]

\* What the except-branch of redeem leaves of the transaction's credit of u:
\* conn.transaction() rolls back, nothing of it is committed.
RolledBackCredit(p, u) == 0

\* The reply of redeem when the INSERT raises UniqueViolationError: the
\* generic `except Exception` branch, "Something went wrong. Try again."
RedeemConflictReply == "error"

\* INSERT INTO pin_redemptions: UNIQUE (pin_id, user_id).  A committed row of
\* the pair raises UniqueViolationError, the transaction rolls back.  (No
\* other transaction can hold an uncommitted row of the pair here: it would
\* hold the user's row lock.)  Otherwise the row is inserted and the
\* transaction commits.
RedeemInsert(p) ==
  /\ pc[p] = "rd_insert"
  /\ LET u == loc[p].user
         code == loc[p].code
     IN IF HasRedemption(code, u)
        THEN /\ dkp' = [dkp EXCEPT ![u] = @ + RolledBackCredit(p, u)]
             /\ redemptions' = redemptions
             /\ loc' = [loc EXCEPT ![p].outcome = RedeemConflictReply,
                                   ![p].conflict = TRUE]
        ELSE /\ dkp' = [v \in Users |-> dkp[v] + tx[p].delta[v]]
             /\ redemptions' = Append(redemptions, [pin |-> code, user_id |-> u])
             /\ loc' = [loc EXCEPT ![p].outcome = "ok"]
  /\ tx' = [tx EXCEPT ![p] = NoTx]
  /\ pc' = [pc EXCEPT ![p] = "done"]
  /\ UNCHANGED <<now, pins, auctions, bids, quota, placed, awards, ledger>>

\* redeem has replied (loc[p].outcome); its connection goes back to the pool.
Finish(p) ==
  /\ p \in Slots
  /\ pc[p] = "done"
  /\ pc' = [pc EXCEPT ![p] = "idle"]
  /\ loc' = [loc EXCEPT ![p] = NoLoc]
  /\ UNCHANGED <<now, dkp, pins, redemptions, auctions, bids, quota, placed,
                 awards, tx, ledger>>

\* ------------------------------------------------------------ pin_list
\* The rows of the codes S in an order the ORDER BY expires_at ASC allows (the
\* order of rows that expire together is the store's choice).
PinRowsAscending(S) ==
  {s \in [1..Cardinality(S) -> S] :
     /\ \A i, j \in 1..Cardinality(S) : i # j => s[i] # s[j]
     /\ \A i, j \in 1..Cardinality(S) :
          i < j => pins[s[i]].expires_at <= pins[s[j]].expires_at}

\* SELECT code, points, expires_at, active FROM pins WHERE active=TRUE.
ListedCodes == {c \in Codes : pins[c].found /\ pins[c].active}

\* "No active PINs." when there is no row, else the lines of the rows.
PinListEmptyReply == "no_active"

\* pin_list: one SELECT, then the reply (kept until the handler ends).
PinList(p) ==
  /\ CanStart(p)
  /\ \E rows \in PinRowsAscending(ListedCodes) :
       loc' = [loc EXCEPT ![p] =
                 [NoLoc EXCEPT !.rows = rows,
                               !.outcome = IF rows = <<>> THEN PinListEmptyReply
                                           ELSE "listed"]]
  /\ pc' = [pc EXCEPT ![p] = "done"]
  /\ UNCHANGED <<now, dkp, pins, redemptions, auctions, bids, quota, placed,
                 awards, tx, ledger>>

\* ------------------------------------------------------------ loot_start
\* INSERT INTO loot_auctions ... RETURNING id.  Every auction is started in a
\* channel of its own, so "the open auction of the channel" is the auction.
LootStart ==
  /\ Len(auctions) < quota.auctions
  /\ \E style \in Styles, min_bid \in MinBids, increment \in Increments,
        duration \in AuctionDurations :
       auctions' = Append(auctions,
         [style |-> style, min_bid |-> min_bid, increment |-> increment,
          expires_at |-> IF duration > 0 THEN now + duration ELSE NoTime,
          status |-> "open"])
  /\ UNCHANGED <<now, dkp, pins, redemptions, bids, quota, placed, awards,
                 pc, loc, tx, ledger>>

\* SELECT * FROM loot_auctions WHERE channel_id=$1 AND status='open'
\* ORDER BY created_at DESC LIMIT 1: the handler's copy of the row.
OpenAuction(c) ==
  IF c \in 1..Len(auctions) /\ auctions[c].status = "open"
  THEN [id |-> c, status |-> "open"]
  ELSE NoAuction

\* ------------------------------------------------------------ resolve_auction
BidsOf(c) == bids[c]

\* ORDER BY amount DESC, created_at ASC.
RECURSIVE SortBids(_)
SortBids(s) ==
  IF s = <<>> THEN <<>>
  ELSE LET top == CHOOSE i \in 1..Len(s) :
                    /\ \A j \in 1..Len(s) : s[j].amount <= s[i].amount
                    /\ \A j \in 1..(i - 1) : s[j].amount < s[i].amount
       IN <<s[top]>> \o SortBids(DropAt(s, top))

\* A fetch that still sees the rows its own transaction deleted.
FetchCommitted(p, c) == SortBids(BidsOf(c))

\* SELECT * FROM bids WHERE auction_id=$1 ORDER BY ...: the committed rows
\* without those this connection's open transaction has deleted.
FetchBids(p, c) ==
  SortBids(SelectSeq(BidsOf(c), LAMBDA b : b.id \notin tx[p].bidDel))

\* amount = min_bid for 'fixed', else the winning bid's amount.
SettleAmount(c, win) ==
  IF auctions[c].style = "fixed" THEN auctions[c].min_bid ELSE win.amount

\* `bids` is read again only under 'zerosum' (the losers): the handler's copy
\* is kept for that style alone.
KeptBids(c, rows) == IF auctions[c].style = "zerosum" THEN rows ELSE <<>>

\* The handler's locals when resolve_auction returns: its own are gone; a
\* command handler replies and ends, the sweeper keeps its rows.
ClearResolve(l) ==
  IF l.ret = "idle" THEN NoLoc
  ELSE [l EXCEPT !.bids = <<>>, !.win = NoBid, !.amt = 0, !.bal = 0, !.li = 0]

\* COMMIT of the pending writes t of p's connection: they become visible
\* together and the row locks are released.
CommitWrites(p, t) ==
  /\ dkp' = [u \in Users |-> dkp[u] + t.delta[u]]
  /\ bids' = [c \in AuctionIds |->
                SelectSeq(bids[c], LAMBDA b : b.id \notin t.bidDel)]
  /\ auctions' = [i \in 1..Len(auctions) |->
                    IF i \in t.closes
                    THEN [auctions[i] EXCEPT !.status = "closed"]
                    ELSE auctions[i]]
  /\ awards' = [c \in AuctionIds |->
                  awards[c] \o SelectSeq(t.awards, LAMBDA r : r.auction_id = c)]
  /\ ledger' = [ledger EXCEPT ![loc[p].a.id] = @ \o t.events]
  /\ tx' = [tx EXCEPT ![p] = NoTx]

\* resolve_auction returns to its caller, leaving every conn.transaction()
\* block it is nested in: with the pending writes t, COMMIT makes them visible
\* together and releases the row locks.  (A statement outside a transaction
\* commits alone: t holds that statement only.)  The COMMIT is taken together
\* with the statement before it: what that statement read cannot change and
\* nothing it wrote shows in between.
CommitAndReturn(p, t) ==
  /\ CommitWrites(p, t)
  /\ pc' = [pc EXCEPT ![p] = loc[p].ret]
  /\ loc' = [loc EXCEPT ![p] = ClearResolve(@)]

\* if a["status"] != "open": return "already ..."; bids = SELECT ...;
\* win = bids[0].
ResolveFetch(p) ==
  /\ pc[p] = "rs_fetch"
  /\ LET c == loc[p].a.id
         rows == FetchBids(p, c)
     IN IF loc[p].a.status # "open"
        THEN CommitAndReturn(p, tx[p])
        ELSE /\ IF rows = <<>>
                THEN /\ pc' = [pc EXCEPT ![p] = "rs_empty"]
                     /\ loc' = loc
                ELSE /\ pc' = [pc EXCEPT ![p] = "rs_lock"]
                     /\ loc' = [loc EXCEPT ![p].bids = KeptBids(c, rows),
                                           ![p].win = rows[1],
                                           ![p].amt = SettleAmount(c, rows[1])]
             /\ UNCHANGED <<dkp, auctions, bids, awards, tx, ledger>>
  /\ UNCHANGED <<now, pins, redemptions, quota, placed>>

\* if not bids: UPDATE loot_auctions SET status='closed' WHERE id=$1 (waits
\* for the auction's row lock); return "... no bids."
ResolveEmpty(p) ==
  /\ pc[p] = "rs_empty"
  /\ AuctionLockFree(loc[p].a.id, p)
  /\ CommitAndReturn(p, [tx[p] EXCEPT !.closes = @ \cup {loc[p].a.id}])
  /\ UNCHANGED <<now, pins, redemptions, quota, placed>>

\* The balance a connection reads: the committed one and its own pending change.
ReadDkp(p, u) == dkp[u] + tx[p].delta[u]

\* A plain SELECT dkp, which waits for nothing.
NoWinnerLock(u, p) == TRUE

\* SELECT dkp ... FOR UPDATE takes the winner's row lock, waiting for it.
WinnerLockFree(u, p) == UserLockFree(u, p)

\* A settlement that charges the highest bid whatever the balance.
AlwaysAffordable(bal, amount) == TRUE

\* if bal < amount: discard the bid; else debit.
Affordable(bal, amount) == bal >= amount

\* async with conn.transaction(): SELECT dkp ... FOR UPDATE; if bal < amount
\* go and delete the bid; else UPDATE users SET dkp = dkp - amount (pending).
ResolveLock(p) ==
  /\ pc[p] = "rs_lock"
  /\ LET w == loc[p].win.user_id
         amount == loc[p].amt
         bal == ReadDkp(p, w)
     IN /\ WinnerLockFree(w, p)
        /\ IF Affordable(bal, amount)
           THEN /\ tx' = [tx EXCEPT ![p].active = TRUE,
                                    ![p].users = @ \cup {w},
                                    ![p].delta[w] = @ - amount,
                                    ![p].events = Append(@,
                                       [kind |-> "debit", user_id |-> w,
                                        amount |-> amount])]
                /\ pc' = [pc EXCEPT ![p] = "rs_close"]
           ELSE /\ tx' = [tx EXCEPT ![p].active = TRUE,
                                    ![p].users = @ \cup {w}]
                /\ pc' = [pc EXCEPT ![p] = "rs_delete"]
  /\ UNCHANGED <<now, dkp, pins, redemptions, auctions, bids, quota, placed,
                 awards, loc, ledger>>

\* The status of the auction that `refreshed` carries into the retry.
RefreshedStatus(c) == auctions[c].status

\* DELETE FROM bids WHERE id=$1 (pending; waits for a transaction that is
\* deleting the same row); refreshed = SELECT * FROM loot_auctions WHERE
\* id=$1; return await resolve_auction(conn, refreshed), which returns at
\* once when refreshed is not open.
ResolveDelete(p) ==
  /\ pc[p] = "rs_delete"
  /\ BidLockFree(loc[p].win.id, p)
  /\ LET c == loc[p].a.id
         t == [tx[p] EXCEPT !.bidDel =
                 IF \E i \in 1..Len(bids[c]) : bids[c][i].id = loc[p].win.id
                 THEN @ \cup {loc[p].win.id} ELSE @]
     IN IF RefreshedStatus(c) # "open"
        THEN CommitAndReturn(p, t)
        ELSE /\ tx' = [tx EXCEPT ![p] = t]
             /\ pc' = [pc EXCEPT ![p] = "rs_fetch"]
             /\ loc' = [loc EXCEPT ![p].a.status = RefreshedStatus(c),
                                   ![p].bids = <<>>, ![p].win = NoBid,
                                   ![p].amt = 0]
             /\ UNCHANGED <<dkp, auctions, bids, awards, ledger>>
  /\ UNCHANGED <<now, pins, redemptions, quota, placed>>

\* losers = [b for b in bids if int(b["user_id"]) != winner_id]
Losers(rows, w) == SelectSeq(rows, LAMBDA b : b.user_id # w)

\* A share rounded up instead of down.
ShareRoundedUp(amount, n) == (amount + n - 1) \div n

\* share = amount // len(losers)
Share(amount, n) == amount \div n

\* An INSERT INTO loot_awards without the UNIQUE auction_id.
AwardInsertAlways(existing, row) == <<row>>

\* INSERT INTO loot_awards ... ON CONFLICT (auction_id) DO NOTHING: the rows
\* the insert adds, given the rows of the auction that exist.
AwardInsert(existing, row) == IF existing = <<>> THEN <<row>> ELSE <<>>

AwardsOf(c) == awards[c]

\* UPDATE loot_auctions SET status='closed' WHERE id=$1 (takes the auction's
\* row lock, pending), then the INSERT INTO loot_awards.  No other
\* transaction holds an uncommitted award of the auction here: it would hold
\* the auction's row lock.  Then the losers are credited, if any.
ResolveClose(p) ==
  /\ pc[p] = "rs_close"
  /\ LET c == loc[p].a.id
         w == loc[p].win.user_id
         row == [auction_id |-> c, winner_id |-> w, amount |-> loc[p].amt]
         losers == Losers(loc[p].bids, w)
         credit == /\ auctions[c].style = "zerosum"
                   /\ losers # <<>>
                   /\ Share(loc[p].amt, Len(losers)) > 0
         t == [tx[p] EXCEPT !.closes = @ \cup {c},
                            !.awards = @ \o AwardInsert(AwardsOf(c) \o @, row)]
     IN /\ AuctionLockFree(c, p)
        /\ IF credit
           THEN /\ tx' = [tx EXCEPT ![p] = t]
                /\ pc' = [pc EXCEPT ![p] = "rs_credit"]
                /\ loc' = [loc EXCEPT ![p].li = 1]
                /\ UNCHANGED <<dkp, auctions, bids, awards, ledger>>
           ELSE CommitAndReturn(p, t)
  /\ UNCHANGED <<now, pins, redemptions, quota, placed>>

\* for b in losers: UPDATE users SET dkp = dkp + share (takes the loser's row
\* lock, waiting for it; pending).  After the last one the block ends.
ResolveCredit(p) ==
  /\ pc[p] = "rs_credit"
  /\ LET losers == Losers(loc[p].bids, loc[p].win.user_id)
         u == losers[loc[p].li].user_id
         share == Share(loc[p].amt, Len(losers))
         t == [tx[p] EXCEPT !.users = @ \cup {u},
                            !.delta[u] = @ + share,
                            !.events = Append(@,
                               [kind |-> "credit", user_id |-> u,
                                amount |-> share])]
     IN /\ UserLockFree(u, p)
        /\ IF loc[p].li < Len(losers)
           THEN /\ tx' = [tx EXCEPT ![p] = t]
                /\ loc' = [loc EXCEPT ![p].li = @ + 1]
                /\ UNCHANGED <<pc, dkp, auctions, bids, awards, ledger>>
           ELSE CommitAndReturn(p, t)
  /\ UNCHANGED <<now, pins, redemptions, quota, placed>>

\* ------------------------------------------------------------ loot_close
\* a = SELECT the open auction of the channel; if not a: "No open auction to
\* close." (nothing changes, the reply is kept until the handler ends); else
\* msg = await resolve_auction(conn, a), after which the command replies and
\* ends: its slot is idle again.
CloseNoOpenReply == "no_open"

CloseStart(p) ==
  /\ CanStart(p)
  /\ \E c \in 1..Len(auctions) :
       LET a == OpenAuction(c) IN
         IF a = NoAuction
         THEN /\ pc' = [pc EXCEPT ![p] = "done"]
              /\ loc' = [loc EXCEPT ![p] = [NoLoc EXCEPT !.chan = c,
                                             !.outcome = CloseNoOpenReply]]
         ELSE /\ pc' = [pc EXCEPT ![p] = "rs_fetch"]
              /\ loc' = [loc EXCEPT ![p] = [NoLoc EXCEPT !.chan = c, !.a = a,
                                                         !.ret = "idle"]]
  /\ UNCHANGED <<now, dkp, pins, redemptions, auctions, bids, quota, placed,
                 awards, tx, ledger>>

\* ------------------------------------------------------------ loot_cancel
CancelStart(p) ==
  /\ CanStart(p)
  /\ \E c \in 1..Len(auctions) :
       LET a == OpenAuction(c) IN
         IF a = NoAuction
         THEN UNCHANGED <<pc, loc>>
         ELSE /\ pc' = [pc EXCEPT ![p] = "cn_update"]
              /\ loc' = [loc EXCEPT ![p] = [NoLoc EXCEPT !.chan = c, !.a = a]]
  /\ UNCHANGED <<now, dkp, pins, redemptions, auctions, bids, quota, placed,
                 awards, tx, ledger>>

\* The status loot_cancel's UPDATE loot_auctions SET status='cancelled'
\* WHERE id=$1 leaves in a row whose status is `status`.
CancelledStatus(status) == "cancelled"

CancelUpdate(p) ==
  /\ pc[p] = "cn_update"
  /\ LET c == loc[p].a.id IN
       /\ AuctionLockFree(c, p)
       /\ auctions' = [auctions EXCEPT ![c].status = CancelledStatus(@)]
  /\ pc' = [pc EXCEPT ![p] = "idle"]
  /\ loc' = [loc EXCEPT ![p] = NoLoc]
  /\ UNCHANGED <<now, dkp, pins, redemptions, bids, quota, placed, awards,
                 tx, ledger>>

\* ------------------------------------------------------------ bid
\* A /bid that accepts every amount.
AnyBidOk(amount, min_bid, inc) == TRUE

\* if amount < min_bid or (amount - min_bid) % inc != 0: rejected.
BidStepOk(amount, min_bid, inc) ==
  amount >= min_bid /\ (amount - min_bid) % inc = 0

\* "Bid must be >= {min_bid} and increase by steps of {inc}."
BidTooLowReply == "too_low"

\* The command arrives: ensure_user(pool, interaction.user), then a = SELECT
\* the open auction (none: "No open auction in this channel.", nothing
\* changes).  'fixed' goes its own way; else the amount is validated
\* ("Bid must be >= ...", nothing changes, the reply is kept until the
\* handler ends).
BidStart(p) ==
  /\ CanStart(p)
  /\ \E u \in 1..quota.users, c \in 1..Len(auctions), amount \in BidAmounts :
       LET a == OpenAuction(c) IN
         /\ EnsureUser(p, u)
         /\ IF a = NoAuction
            THEN UNCHANGED <<pc, loc>>
            ELSE IF auctions[c].style = "fixed"
            THEN /\ pc' = [pc EXCEPT ![p] = "bd_fx_bal"]
                 /\ loc' = [loc EXCEPT ![p] = [NoLoc EXCEPT !.user = u,
                                                            !.chan = c, !.a = a]]
            ELSE IF BidStepOk(amount, auctions[c].min_bid, auctions[c].increment)
            THEN /\ pc' = [pc EXCEPT ![p] = "bd_bal"]
                 /\ loc' = [loc EXCEPT ![p] = [NoLoc EXCEPT !.user = u,
                                                            !.chan = c, !.a = a,
                                                            !.amount = amount]]
            ELSE /\ pc' = [pc EXCEPT ![p] = "done"]
                 /\ loc' = [loc EXCEPT ![p] = [NoLoc EXCEPT !.user = u,
                                                            !.chan = c,
                                                            !.amount = amount,
                                                            !.outcome = BidTooLowReply]]
  /\ UNCHANGED <<now, dkp, pins, redemptions, auctions, bids, quota, placed,
                 awards, tx, ledger>>

\* 'fixed': bal = SELECT dkp; if bal < cost: "Insufficient DKP".
BidFixedBalance(p) ==
  /\ pc[p] = "bd_fx_bal"
  /\ IF dkp[loc[p].user] < auctions[loc[p].a.id].min_bid
     THEN /\ pc' = [pc EXCEPT ![p] = "idle"]
          /\ loc' = [loc EXCEPT ![p] = NoLoc]
     ELSE /\ pc' = [pc EXCEPT ![p] = "bd_fx_count"]
          /\ loc' = loc
  /\ UNCHANGED <<now, dkp, pins, redemptions, auctions, bids, quota, placed,
                 awards, tx, ledger>>

\* existing_bids = SELECT COUNT(*) FROM bids WHERE auction_id=$1;
\* if existing_bids > 0: "Too late - item already claimed."
BidFixedCount(p) ==
  /\ pc[p] = "bd_fx_count"
  /\ IF Len(BidsOf(loc[p].a.id)) > 0
     THEN /\ pc' = [pc EXCEPT ![p] = "idle"]
          /\ loc' = [loc EXCEPT ![p] = NoLoc]
     ELSE /\ pc' = [pc EXCEPT ![p] = "bd_fx_insert"]
          /\ loc' = loc
  /\ UNCHANGED <<now, dkp, pins, redemptions, auctions, bids, quota, placed,
                 awards, tx, ledger>>

\* bids.id is a BIGSERIAL: the id of a new row is one no row ever had.  Ids
\* are only compared, so a new row of user u in auction c takes the first
\* <<c, u, n>> that no row, no handler's copy of a row and no pending DELETE
\* holds.
BidIdsInUse ==
  UNION {{bids[c][i].id : i \in 1..Len(bids[c])} : c \in AuctionIds}
    \cup UNION {tx[q].bidDel : q \in Procs}
    \cup {loc[q].win.id : q \in Procs}
    \cup UNION {{loc[q].bids[i].id : i \in 1..Len(loc[q].bids)} : q \in Procs}

NextBidId(c, u) ==
  LET used == {n \in 1..(Cardinality(BidIdsInUse) + 1) : <<c, u, n>> \in BidIdsInUse}
  IN <<c, u, CHOOSE n \in 1..(Cardinality(BidIdsInUse) + 1) :
                /\ n \notin used
                /\ \A m \in 1..(n - 1) : m \in used>>

BidRowOf(c, u) ==
  LET s == SelectSeq(bids[c], LAMBDA b : b.user_id = u)
  IN IF s = <<>> THEN NoBid ELSE s[1]

\* INSERT INTO bids ... (no ON CONFLICT): a row of the pair raises
\* UniqueViolationError out of the handler; else the claim is stored and
\* resolve_auction(conn, a) runs at once.
BidFixedInsert(p) ==
  /\ pc[p] = "bd_fx_insert"
  /\ LET c == loc[p].a.id
         u == loc[p].user
         old == BidRowOf(c, u)
     IN IF old # NoBid
        THEN /\ BidLockFree(old.id, p)
             /\ pc' = [pc EXCEPT ![p] = "idle"]
             /\ loc' = [loc EXCEPT ![p] = NoLoc]
             /\ UNCHANGED bids
        ELSE /\ bids' = [bids EXCEPT ![c] =
                          Append(@, [id |-> NextBidId(c, u), auction_id |-> c,
                                     user_id |-> u,
                                     amount |-> auctions[c].min_bid])]
             /\ pc' = [pc EXCEPT ![p] = "rs_fetch"]
             /\ loc' = [loc EXCEPT ![p].ret = "idle"]
  /\ UNCHANGED <<now, dkp, pins, redemptions, auctions, quota, placed, awards, tx,
                 ledger>>

\* blind / zerosum: bal = SELECT dkp; if bal < amount: "Insufficient DKP".
BidBalance(p) ==
  /\ pc[p] = "bd_bal"
  /\ IF dkp[loc[p].user] < loc[p].amount
     THEN /\ pc' = [pc EXCEPT ![p] = "idle"]
          /\ loc' = [loc EXCEPT ![p] = NoLoc]
     ELSE /\ pc' = [pc EXCEPT ![p] = "bd_upsert"]
          /\ loc' = loc
  /\ UNCHANGED <<now, dkp, pins, redemptions, auctions, bids, quota, placed,
                 awards, tx, ledger>>

\* History: the pairs stored so far with <<u, amount>>, which keeps its place
\* if it was stored before.
Placed(h, u, amount) ==
  IF ~quota.history \/ \E i \in 1..Len(h) : h[i] = <<u, amount>>
  THEN h
  ELSE Append(h, <<u, amount>>)

\* INSERT INTO bids ... ON CONFLICT (auction_id, user_id) DO UPDATE SET
\* amount = EXCLUDED.amount, created_at = now(): the user's row of the auction
\* keeps its id, takes the new amount and becomes the newest row.
BidUpsert(p) ==
  /\ pc[p] = "bd_upsert"
  /\ LET c == loc[p].a.id
         u == loc[p].user
         old == BidRowOf(c, u)
     IN IF old # NoBid
        THEN /\ BidLockFree(old.id, p)
             /\ bids' = [bids EXCEPT ![c] =
                          Append(SelectSeq(@, LAMBDA b : b.id # old.id),
                                 [old EXCEPT !.amount = loc[p].amount])]
        ELSE /\ bids' = [bids EXCEPT ![c] =
                          Append(@, [id |-> NextBidId(c, u), auction_id |-> c,
                                     user_id |-> u, amount |-> loc[p].amount])]
  /\ placed' = [placed EXCEPT ![loc[p].a.id] =
                  Placed(@, loc[p].user, loc[p].amount)]
  /\ pc' = [pc EXCEPT ![p] = "idle"]
  /\ loc' = [loc EXCEPT ![p] = NoLoc]
  /\ UNCHANGED <<now, dkp, pins, redemptions, auctions, quota, awards, tx,
                 ledger>>

\* ------------------------------------------------------------ auto_close_task
\* A cycle that never finds a row.
NoExpiredRows == <<>>

\* rows = SELECT * FROM loot_auctions WHERE status='open' AND expires_at IS
\* NOT NULL AND expires_at < now().
ExpiredOpen ==
  SelectSeq([i \in 1..Len(auctions) |-> [id |-> i, status |-> "open"]],
            LAMBDA a : /\ auctions[a.id].status = "open"
                       /\ auctions[a.id].expires_at # NoTime
                       /\ auctions[a.id].expires_at < now)

\* One cycle begins: the rows are fetched and the first is resolved.  (A
\* cycle that finds no row sleeps and changes nothing.)
SweepFetch ==
  /\ pc[Sweeper] = "idle"
  /\ ExpiredOpen # <<>>
  /\ loc' = [loc EXCEPT ![Sweeper] =
               [NoLoc EXCEPT !.a = Head(ExpiredOpen), !.rows = Tail(ExpiredOpen),
                             !.ret = "sw_send"]]
  /\ pc' = [pc EXCEPT ![Sweeper] = "rs_fetch"]
  /\ UNCHANGED <<now, dkp, pins, redemptions, auctions, bids, quota, placed,
                 awards, tx, ledger>>

\* await ch.send(msg): delivered, and the loop goes on to the next row (or
\* the cycle ends and sleeps); or it raises, `except Exception` logs it and
\* the cycle ends.
SweepSend ==
  /\ pc[Sweeper] = "sw_send"
  /\ \E delivered \in BOOLEAN :
       IF delivered /\ loc[Sweeper].rows # <<>>
       THEN /\ loc' = [loc EXCEPT ![Sweeper].a = Head(loc[Sweeper].rows),
                                  ![Sweeper].rows = Tail(loc[Sweeper].rows)]
            /\ pc' = [pc EXCEPT ![Sweeper] = "rs_fetch"]
       ELSE /\ loc' = [loc EXCEPT ![Sweeper] = NoLoc]
            /\ pc' = [pc EXCEPT ![Sweeper] = "idle"]
  /\ UNCHANGED <<now, dkp, pins, redemptions, auctions, bids, quota, placed,
                 awards, tx, ledger>>

\* Statements that commit one by one: an exception undoes none of them.
KeptWrites(t) == t

\* What is left of the pending writes t when an exception leaves the
\* conn.transaction() blocks (the nested ones of the retries included):
\* ROLLBACK, nothing.
RolledBack(t) == NoTx

\* A statement of the cycle raises (a store error): the open transaction
\* rolls back, `except Exception` logs the traceback (the statement that
\* raised), the cycle ends and sleeps.
SweepStoreError ==
  /\ pc[Sweeper] \in {"rs_fetch", "rs_empty", "rs_lock", "rs_delete",
                       "rs_close", "rs_credit"}
  /\ CommitWrites(Sweeper, RolledBack(tx[Sweeper]))
  /\ pc' = [pc EXCEPT ![Sweeper] = "idle"]
  /\ loc' = [loc EXCEPT ![Sweeper] = [NoLoc EXCEPT !.outcome = pc[Sweeper]]]
  /\ UNCHANGED <<now, pins, redemptions, quota, placed>>

\* ------------------------------------------------------------ deadlocks
\* The connections whose open transaction holds the lock p's next statement
\* waits for.
WaitsOn(p) ==
  LET others == Procs \ {p} IN
  CASE pc[p] = "rs_lock" ->
         {q \in others : loc[p].win.user_id \in tx[q].users}
    [] pc[p] = "rs_credit" ->
         {q \in others :
            Losers(loc[p].bids, loc[p].win.user_id)[loc[p].li].user_id
              \in tx[q].users}
    [] pc[p] \in {"rs_close", "rs_empty"} ->
         {q \in others : loc[p].a.id \in tx[q].closes}
    [] pc[p] = "rs_delete" ->
         {q \in others : loc[p].win.id \in tx[q].bidDel}
    [] OTHER -> {}

RECURSIVE WaitReach(_, _)
WaitReach(S, n) ==
  IF n = 0 THEN S
  ELSE WaitReach(S \cup UNION {WaitsOn(q) : q \in S}, n - 1)

Deadlocked(p) == p \in WaitReach(WaitsOn(p), Cardinality(Procs))

\* Postgres detects the cycle and raises DeadlockDetectedError in one of its
\* transactions, which rolls back.  A command handler ends with the error;
\* auto_close_task logs it and sleeps.
DeadlockAbort(p) ==
  /\ tx[p].active
  /\ Deadlocked(p)
  /\ tx' = [tx EXCEPT ![p] = NoTx]
  /\ IF p = Sweeper
     THEN /\ pc' = [pc EXCEPT ![p] = "idle"]
          /\ loc' = [loc EXCEPT ![p] = NoLoc]
     ELSE /\ pc' = [pc EXCEPT ![p] = "idle"]
          /\ loc' = [loc EXCEPT ![p] = NoLoc]
  /\ UNCHANGED <<now, dkp, pins, redemptions, auctions, bids, quota, placed,
                 awards, ledger>>

\* ------------------------------------------------------------ specifications
InitStore ==
  /\ now = 0
  /\ pins = [c \in Codes |-> NoPin]
  /\ redemptions = <<>>
  /\ bids = [c \in AuctionIds |-> <<>>]
  /\ awards = [c \in AuctionIds |-> <<>>]
  /\ pc = [p \in Procs |-> "idle"]
  /\ loc = [p \in Procs |-> NoLoc]
  /\ tx = [p \in Procs |-> NoTx]
  /\ ledger = [c \in AuctionIds |-> <<>>]
  /\ placed = [c \in AuctionIds |-> <<>>]

\* The PIN commands: the store starts empty.
InitRedeem ==
  /\ InitStore
  /\ quota = [slots |-> MaxProcs, auctions |-> 0, users |-> 2, codes |-> 1,
            history |-> FALSE]
  /\ auctions = <<>>
  /\ dkp = [u \in Users |-> 0]

NextRedeem ==
  \/ Tick
  \/ PinCreate
  \/ PinRevoke
  \/ \E p \in Slots : RedeemStart(p)
  \/ \E p \in Slots : RedeemEnsureUser(p)
  \/ \E p \in Slots : RedeemFetchPin(p)
  \/ \E p \in Slots : RedeemCheckExpiry(p)
  \/ \E p \in Slots : RedeemSelectExisting(p)
  \/ \E p \in Slots : RedeemAward(p)
  \/ \E p \in Slots : RedeemInsert(p)
  \/ \E p \in Slots : Finish(p)

SpecRedeem == InitRedeem /\ [][NextRedeem]_vars

\* The moderators' PIN commands on two codes: created, revoked and listed
\* as time passes.
InitPins ==
  /\ InitStore
  /\ quota = [slots |-> 1, auctions |-> 0, users |-> 2, codes |-> 2,
            history |-> FALSE]
  /\ auctions = <<>>
  /\ dkp = [u \in Users |-> 0]

NextPins ==
  \/ Tick
  \/ PinCreate
  \/ PinRevoke
  \/ \E p \in Slots : PinList(p)
  \/ \E p \in Slots : Finish(p)

SpecPins == InitPins /\ [][NextPins]_vars

\* The loot commands and the sweeper: the users hold what earlier redeems
\* gave them.
InitAuction ==
  /\ InitStore
  /\ quota = [slots |-> MaxProcs, auctions |-> 1, users |-> 2, codes |-> 1,
            history |-> FALSE]
  /\ auctions = <<>>
  /\ dkp = [u \in Users |-> InitBalance]

NextAuction ==
  \/ Tick
  \/ LootStart
  \/ \E p \in Slots : CloseStart(p)
  \/ \E p \in Slots : CancelStart(p)
  \/ \E p \in Slots : CancelUpdate(p)
  \/ \E p \in Slots : BidStart(p)
  \/ \E p \in Slots : BidFixedBalance(p)
  \/ \E p \in Slots : BidFixedCount(p)
  \/ \E p \in Slots : BidFixedInsert(p)
  \/ \E p \in Slots : BidBalance(p)
  \/ \E p \in Slots : BidUpsert(p)
  \/ SweepFetch
  \/ SweepSend
  \/ \E p \in Procs : ResolveFetch(p)
  \/ \E p \in Procs : ResolveEmpty(p)
  \/ \E p \in Procs : ResolveLock(p)
  \/ \E p \in Procs : ResolveDelete(p)
  \/ \E p \in Procs : ResolveClose(p)
  \/ \E p \in Procs : ResolveCredit(p)
  \/ \E p \in Procs : DeadlockAbort(p)
  \/ \E p \in Slots : Finish(p)

SpecAuction == InitAuction /\ [][NextAuction]_vars

\* Several auctions, started by earlier loot_start commands and still open,
\* and one command at a time: the settlements whose winner has spent the
\* points on another auction since bidding.
PairMinBids == {1, 2}
PairIncrements == {1, 2}

InitPair ==
  /\ InitStore
  /\ quota = [slots |-> 1, auctions |-> MaxAuctions, users |-> 2, codes |-> 1,
            history |-> FALSE]
  /\ dkp = [u \in Users |-> InitBalance]
  /\ \E styles \in [AuctionIds -> Styles], min_bid \in PairMinBids,
        increment \in PairIncrements :
       auctions = [c \in AuctionIds |->
                     [style |-> styles[c], min_bid |-> min_bid,
                      increment |-> increment, expires_at |-> NoTime,
                      status |-> "open"]]

NextPair ==
  \/ \E p \in Slots : CloseStart(p)
  \/ \E p \in Slots : CancelStart(p)
  \/ \E p \in Slots : CancelUpdate(p)
  \/ \E p \in Slots : BidStart(p)
  \/ \E p \in Slots : BidFixedBalance(p)
  \/ \E p \in Slots : BidFixedCount(p)
  \/ \E p \in Slots : BidFixedInsert(p)
  \/ \E p \in Slots : BidBalance(p)
  \/ \E p \in Slots : BidUpsert(p)
  \/ \E p \in Slots : ResolveFetch(p)
  \/ \E p \in Slots : ResolveEmpty(p)
  \/ \E p \in Slots : ResolveLock(p)
  \/ \E p \in Slots : ResolveDelete(p)
  \/ \E p \in Slots : ResolveClose(p)
  \/ \E p \in Slots : ResolveCredit(p)
  \/ \E p \in Slots : Finish(p)

SpecPair == InitPair /\ [][NextPair]_vars

\* Every awaited statement of resolve_auction returns: a settlement that can
\* take its next step takes it.
PairFairness ==
  /\ WF_vars(\E p \in Slots : ResolveFetch(p))
  /\ WF_vars(\E p \in Slots : ResolveEmpty(p))
  /\ WF_vars(\E p \in Slots : ResolveLock(p))
  /\ WF_vars(\E p \in Slots : ResolveDelete(p))
  /\ WF_vars(\E p \in Slots : ResolveClose(p))
  /\ WF_vars(\E p \in Slots : ResolveCredit(p))

SpecPairFair == SpecPair /\ PairFairness

\* One fixed-price auction, open, at a price every user can afford once, and
\* nothing but /bid commands: the claim attempts race each other.
ClaimPrices == {1, 2}

InitClaim ==
  /\ InitStore
  /\ quota = [slots |-> MaxProcs, auctions |-> 1, users |-> 2, codes |-> 1,
            history |-> FALSE]
  /\ dkp = [u \in Users |-> InitBalance]
  /\ \E min_bid \in ClaimPrices :
       auctions = << [style |-> "fixed", min_bid |-> min_bid,
                      increment |-> 1, expires_at |-> NoTime,
                      status |-> "open"] >>

NextClaim ==
  \/ \E p \in Slots : BidStart(p)
  \/ \E p \in Slots : BidFixedBalance(p)
  \/ \E p \in Slots : BidFixedCount(p)
  \/ \E p \in Slots : BidFixedInsert(p)
  \/ \E p \in Slots : ResolveFetch(p)
  \/ \E p \in Slots : ResolveLock(p)
  \/ \E p \in Slots : ResolveDelete(p)
  \/ \E p \in Slots : ResolveClose(p)

SpecClaim == InitClaim /\ [][NextClaim]_vars

\* One zero-sum auction, open, three bidders and /loot_close: a settlement
\* with more than one loser to share the winning amount.
InitZero ==
  /\ InitStore
  /\ quota = [slots |-> MaxProcs, auctions |-> 1, users |-> 3, codes |-> 1,
            history |-> FALSE]
  /\ dkp = [u \in Users |-> InitBalance]
  /\ \E min_bid \in MinBids, increment \in Increments :
       auctions = << [style |-> "zerosum", min_bid |-> min_bid,
                      increment |-> increment, expires_at |-> NoTime,
                      status |-> "open"] >>

NextZero ==
  \/ \E p \in Slots : CloseStart(p)
  \/ \E p \in Slots : BidStart(p)
  \/ \E p \in Slots : BidBalance(p)
  \/ \E p \in Slots : BidUpsert(p)
  \/ \E p \in Slots : ResolveFetch(p)
  \/ \E p \in Slots : ResolveEmpty(p)
  \/ \E p \in Slots : ResolveLock(p)
  \/ \E p \in Slots : ResolveDelete(p)
  \/ \E p \in Slots : ResolveClose(p)
  \/ \E p \in Slots : ResolveCredit(p)
  \/ \E p \in Slots : DeadlockAbort(p)
  \/ \E p \in Slots : Finish(p)

SpecZero == InitZero /\ [][NextZero]_vars

\* One sealed or zero-sum auction, open, two bidders who place and replace
\* bids one command at a time, and /loot_close; the history of the bids is
\* kept.
InitTie ==
  /\ InitStore
  /\ quota = [slots |-> 1, auctions |-> 1, users |-> 2, codes |-> 1,
              history |-> TRUE]
  /\ dkp = [u \in Users |-> InitBalance]
  /\ \E style \in Styles \ {"fixed"}, min_bid \in MinBids,
        increment \in Increments :
       auctions = << [style |-> style, min_bid |-> min_bid,
                      increment |-> increment, expires_at |-> NoTime,
                      status |-> "open"] >>

NextTie ==
  \/ \E p \in Slots : CloseStart(p)
  \/ \E p \in Slots : BidStart(p)
  \/ \E p \in Slots : BidBalance(p)
  \/ \E p \in Slots : BidUpsert(p)
  \/ \E p \in Slots : ResolveFetch(p)
  \/ \E p \in Slots : ResolveEmpty(p)
  \/ \E p \in Slots : ResolveLock(p)
  \/ \E p \in Slots : ResolveClose(p)
  \/ \E p \in Slots : ResolveCredit(p)
  \/ \E p \in Slots : Finish(p)

SpecTie == InitTie /\ [][NextTie]_vars

\* Timed auctions, started by earlier loot_start commands, that expire
\* together and hold the bids earlier /bid commands stored; a PIN may be
\* created; nothing runs but auto_close_task.
BidRow(c, u, amount) ==
  [id |-> <<c, u, 1>>, auction_id |-> c, user_id |-> u, amount |-> amount]

\* The bids an auction may hold at rest: a 'fixed' auction that is open has
\* none (a claim settles at once).
SweepBids(c, style) ==
  IF style = "fixed" THEN {<<>>}
  ELSE {<<>>, <<BidRow(c, 1, 2)>>, <<BidRow(c, 1, 2), BidRow(c, 2, 1)>>}

InitSweep ==
  /\ now = 0
  /\ pins = [c \in Codes |-> NoPin]
  /\ redemptions = <<>>
  /\ awards = [c \in AuctionIds |-> <<>>]
  /\ pc = [p \in Procs |-> "idle"]
  /\ loc = [p \in Procs |-> NoLoc]
  /\ tx = [p \in Procs |-> NoTx]
  /\ ledger = [c \in AuctionIds |-> <<>>]
  /\ placed = [c \in AuctionIds |-> <<>>]
  /\ quota = [slots |-> 0, auctions |-> MaxAuctions, users |-> 2, codes |-> 1,
            history |-> FALSE]
  /\ dkp = [u \in Users |-> InitBalance]
  /\ \E styles \in [AuctionIds -> Styles], min_bid \in MinBids,
        increment \in Increments :
       /\ auctions = [c \in AuctionIds |->
                        [style |-> styles[c], min_bid |-> min_bid,
                         increment |-> increment, expires_at |-> 1,
                         status |-> "open"]]
       /\ bids \in [AuctionIds -> UNION {SweepBids(c, styles[c]) : c \in AuctionIds}]
       /\ \A c \in AuctionIds : bids[c] \in SweepBids(c, styles[c])

NextSweep ==
  \/ Tick
  \/ PinCreate
  \/ SweepFetch
  \/ SweepSend
  \/ ResolveFetch(Sweeper)
  \/ ResolveEmpty(Sweeper)
  \/ ResolveLock(Sweeper)
  \/ ResolveDelete(Sweeper)
  \/ ResolveClose(Sweeper)
  \/ ResolveCredit(Sweeper)
  \/ SweepStoreError

SpecSweep == InitSweep /\ [][NextSweep]_vars

\* Two zero-sum auctions, open, each holding a bid of 2 and a bid of 1 of
\* the same two users, and /loot_close commands that may run together.
CrossBids(c) ==
  {<<BidRow(c, 1, 2), BidRow(c, 2, 1)>>, <<BidRow(c, 2, 2), BidRow(c, 1, 1)>>}

InitCross ==
  /\ now = 0
  /\ pins = [c \in Codes |-> NoPin]
  /\ redemptions = <<>>
  /\ awards = [c \in AuctionIds |-> <<>>]
  /\ pc = [p \in Procs |-> "idle"]
  /\ loc = [p \in Procs |-> NoLoc]
  /\ tx = [p \in Procs |-> NoTx]
  /\ ledger = [c \in AuctionIds |-> <<>>]
  /\ placed = [c \in AuctionIds |-> <<>>]
  /\ quota = [slots |-> MaxProcs, auctions |-> MaxAuctions, users |-> 2,
              codes |-> 1, history |-> FALSE]
  /\ dkp = [u \in Users |-> InitBalance]
  /\ \E min_bid \in MinBids, increment \in Increments :
       auctions = [c \in AuctionIds |->
                     [style |-> "zerosum", min_bid |-> min_bid,
                      increment |-> increment, expires_at |-> NoTime,
                      status |-> "open"]]
  /\ bids \in [AuctionIds -> UNION {CrossBids(c) : c \in AuctionIds}]
  /\ \A c \in AuctionIds : bids[c] \in CrossBids(c)

NextCross ==
  \/ \E p \in Slots : CloseStart(p)
  \/ \E p \in Slots : ResolveFetch(p)
  \/ \E p \in Slots : ResolveLock(p)
  \/ \E p \in Slots : ResolveDelete(p)
  \/ \E p \in Slots : ResolveClose(p)
  \/ \E p \in Slots : ResolveCredit(p)
  \/ \E p \in Slots : DeadlockAbort(p)
  \/ \E p \in Slots : Finish(p)

SpecCross == InitCross /\ [][NextCross]_vars

\* auto_close_task is a `while not cli.is_closed()` loop that sleeps 20 s
\* between cycles: a cycle begins again and again, and every awaited
\* statement returns.  Store errors are transient: from some time on the
\* statements of the cycle succeed.  (Sends may fail for ever.)
SweepFairness ==
  /\ WF_vars(SweepFetch)
  /\ WF_vars(SweepSend)
  /\ WF_vars(ResolveFetch(Sweeper))
  /\ WF_vars(ResolveEmpty(Sweeper))
  /\ WF_vars(ResolveLock(Sweeper))
  /\ WF_vars(ResolveDelete(Sweeper))
  /\ WF_vars(ResolveClose(Sweeper))
  /\ WF_vars(ResolveCredit(Sweeper))
  /\ <>[][~SweepStoreError]_vars

SpecSweepFair == SpecSweep /\ SweepFairness

\* ------------------------------------------------------------ properties
\* The pin_redemptions rows of (code, u).
RedemptionCount(code, u) ==
  Cardinality({i \in 1..Len(redemptions) :
                 redemptions[i].pin = code /\ redemptions[i].user_id = u})

\* The points of the codes u has a pin_redemptions row of.
RedeemedPoints(u) ==
  SeqSum([i \in 1..Len(redemptions) |->
            IF redemptions[i].user_id = u
            THEN pins[redemptions[i].pin].points ELSE 0])

\* The committed debits of the settlements of auction c, and the credits of u.
DebitsOf(c) == SelectSeq(ledger[c], LAMBDA e : e.kind = "debit")
CreditsOf(c, u) ==
  SelectSeq(ledger[c], LAMBDA e : e.kind = "credit" /\ e.user_id = u)
DebitTotal(c) ==
  SeqSum([i \in 1..Len(DebitsOf(c)) |-> DebitsOf(c)[i].amount])

\* Credits less debits of a sequence of balance changes.
NetOf(events) ==
  SeqSum([i \in 1..Len(events) |->
            IF events[i].kind = "credit" THEN events[i].amount
            ELSE 0 - events[i].amount])

TotalDkp(d) == SumOver(d, Users)

\* C1: however redeems of one code by one user interleave, the pair has at
\* most one pin_redemptions row, every balance is the sum of the points of
\* the codes its user has a row of (one credit per row, none without), and
\* once a redeem of a valid code has replied the pair has exactly one row.
C1_RedeemRaceCreditsOnce ==
  /\ \A code \in Codes, u \in Users : RedemptionCount(code, u) <= 1
  /\ \A u \in Users : dkp[u] = RedeemedPoints(u)
  /\ \A p \in Slots :
       (pc[p] = "done" /\ loc[p].outcome \in {"ok", "error", "already"})
         => RedemptionCount(loc[p].code, loc[p].user) = 1

\* Two redeems of the same code by the same user have both replied, one
\* credited and the other lost the INSERT; the user holds the points once.
C1_Witness ==
  \E p, q \in Slots :
    /\ p # q
    /\ pc[p] = "done" /\ pc[q] = "done"
    /\ loc[p].user = loc[q].user /\ loc[p].code = loc[q].code
    /\ loc[p].outcome = "ok"
    /\ loc[q].conflict
    /\ dkp[loc[p].user] = pins[loc[p].code].points
    /\ dkp[loc[p].user] > 0

\* C2: the redeem that loses the race on the UNIQUE (pin_id, user_id) replies
\* that the PIN was already redeemed.
C2_RaceLoserReportsAlreadyRedeemed ==
  \A p \in Slots :
    (pc[p] = "done" /\ loc[p].conflict) => loc[p].outcome = "already"

\* C3: whatever settlements of one auction race, their committed balance
\* changes hold at most one debit, and at most one credit of each user.
C3_SettlementAppliesOnce ==
  \A c \in AuctionIds :
    /\ Len(DebitsOf(c)) <= 1
    /\ \A u \in Users : Len(CreditsOf(c, u)) <= 1

\* C4: the status of an auction only ever leaves 'open': a closed or
\* cancelled auction keeps its status in every step.
C4_StatusOnlyLeavesOpen ==
  [][\A c \in 1..Len(auctions) :
       auctions[c].status # "open"
         => auctions'[c].status = auctions[c].status]_vars

\* C5: a cancelled auction has no loot_awards row and no settlement has
\* changed a balance for it.
C5_CancelledHasNoSettlement ==
  \A c \in 1..Len(auctions) :
    auctions[c].status = "cancelled"
      => awards[c] = <<>> /\ ledger[c] = <<>>

\* C6: an auction has at most one loot_awards row, however many settlements
\* of it commit.
C6_AtMostOneAward ==
  \A c \in AuctionIds : Len(AwardsOf(c)) <= 1

\* Two settlements of one auction have committed a debit each, and the
\* auction has one loot_awards row.
C6_Witness ==
  \E c \in AuctionIds : Len(DebitsOf(c)) >= 2 /\ Len(AwardsOf(c)) = 1

\* C7: no balance is negative in any reachable state.
C7_NoNegativeBalance ==
  \A u \in Users : dkp[u] >= 0

\* A settlement holds the winner's row lock and has read a balance below the
\* amount, after an earlier settlement of the auction debited that winner.
C7_Witness ==
  \E p \in Procs :
    /\ pc[p] = "rs_delete"
    /\ dkp[loc[p].win.user_id] < loc[p].amt
    /\ \E i \in 1..Len(DebitsOf(loc[p].a.id)) :
         DebitsOf(loc[p].a.id)[i].user_id = loc[p].win.user_id

\* C8: whatever claims of a 'fixed' auction race, the debits committed for
\* it add up to nothing or to min_bid.
C8_FixedPriceDebitsMinBidOnce ==
  \A c \in 1..Len(auctions) :
    auctions[c].style = "fixed"
      => DebitTotal(c) \in {0, auctions[c].min_bid}

\* Bid i of the rows s ranks above bid j: the higher amount, then the earlier
\* created_at.
Outranks(s, i, j) ==
  \/ s[i].amount > s[j].amount
  \/ s[i].amount = s[j].amount /\ i < j

\* The step closes auction c as its ranked bids and the balances demand: the
\* highest-ranked bid whose bidder holds its amount wins and is charged that
\* amount, the bids ranked above it are gone; no such bid: no loot_awards
\* row and no balance changes.
SettledAsRanked(c) ==
  LET s == bids[c]
      payers == {i \in 1..Len(s) : dkp[s[i].user_id] >= s[i].amount}
  IN IF payers = {}
     THEN /\ awards'[c] = <<>>
          /\ dkp' = dkp
          /\ ledger'[c] = <<>>
     ELSE LET k == CHOOSE i \in payers :
                     \A j \in payers \ {i} : Outranks(s, i, j)
              w == s[k].user_id
          IN /\ awards'[c] = << [auction_id |-> c, winner_id |-> w,
                                 amount |-> s[k].amount] >>
             /\ Len(ledger'[c]) >= 1
             /\ ledger'[c][1] = [kind |-> "debit", user_id |-> w,
                                 amount |-> s[k].amount]
             /\ dkp'[w] = dkp[w] - s[k].amount
             /\ auctions[c].style # "zerosum"
                  => \A u \in Users \ {w} : dkp'[u] = dkp[u]
             /\ \A j \in 1..Len(s) :
                  Outranks(s, j, k)
                    => \A i \in 1..Len(bids'[c]) : bids'[c][i].id # s[j].id

\* C9: every step that closes an open auction settles it as ranked: the
\* winner is the highest-ranked affordable bid, charged its amount, the
\* unaffordable bids above it are discarded, and without an affordable bid
\* the auction closes with no award and no balance changed.
C9_WinnerIsHighestAffordable ==
  [][\A c \in 1..Len(auctions) :
       (auctions[c].status = "open" /\ auctions'[c].status = "closed")
         => SettledAsRanked(c)]_vars

\* A settlement has discarded a bid its bidder could not pay and the next
\* bid has passed the balance test: the close is about to commit.
C9_Witness ==
  \E p \in Slots :
    /\ pc[p] = "rs_close"
    /\ tx[p].bidDel # {}
    /\ loc[p].win.id \notin tx[p].bidDel
    /\ auctions[loc[p].a.id].status = "open"

\* C10: a step that commits balance changes of a settlement of a 'zerosum'
\* auction changes the total of the balances by the net of those changes,
\* which is never positive.
C10_ZeroSumNeverMints ==
  [][\A c \in 1..Len(auctions) :
       (auctions[c].style = "zerosum" /\ ledger'[c] # ledger[c])
         => LET new == SubSeq(ledger'[c], Len(ledger[c]) + 1, Len(ledger'[c]))
            IN /\ NetOf(new) <= 0
               /\ TotalDkp(dkp') - TotalDkp(dkp) = NetOf(new)]_vars

\* A 'zerosum' settlement with two losers has committed: the winner paid 2
\* and each loser received 1.
C10_Witness ==
  \E c \in 1..Len(auctions) :
    /\ auctions[c].style = "zerosum"
    /\ auctions[c].status = "closed"
    /\ Len(DebitsOf(c)) = 1
    /\ DebitsOf(c)[1].amount = 2
    /\ Cardinality({u \in Users : Len(CreditsOf(c, u)) = 1}) = 2

\* C11: a loot_close of an auction that is already closed replies with the
\* outcome of the auction's settlement (its loot_awards row), not with any
\* other reply.
C11_CloseOfClosedReturnsRecord ==
  \A p \in Slots :
    ( /\ pc[p] = "done"
      /\ loc[p].chan \in 1..Len(auctions)
      /\ auctions[loc[p].chan].status = "closed"
      /\ AwardsOf(loc[p].chan) # <<>> )
      => loc[p].outcome = "summary"

\* C12: in every state the balances and pin_redemptions agree: each user's
\* balance is the sum of the points of the codes the user has a row of, so no
\* state shows a credit without its row or a row without its credit.
C12_CreditMatchesRedemptions ==
  \A u \in Users : dkp[u] = RedeemedPoints(u)

\* A redeem has credited the user in its transaction (pending) and is about
\* to fail on the INSERT: the pair's row was committed by another redeem.
C12_Witness ==
  \E p \in Slots :
    /\ pc[p] = "rd_insert"
    /\ tx[p].delta[loc[p].user] > 0
    /\ HasRedemption(loc[p].code, loc[p].user)

\* C13: a redeem that tests the expiry of an active code at or after the
\* code's expiry instant (a code of duration 0 is at its expiry instant when
\* issued) replies that the PIN has expired and goes no further.
C13_ExpiredCodeNeverRedeemed ==
  [][\A p \in Slots :
       ( /\ pc[p] = "rd_expiry"
         /\ pc'[p] # "rd_expiry"
         /\ loc[p].pin.expires_at <= now )
         => (pc'[p] = "done" /\ loc'[p].outcome = "expired")]_vars

\* C14: once a code is revoked (active = FALSE) no step adds a
\* pin_redemptions row of it or changes a balance on its account.
C14_RevokedCodeNeverRedeemed ==
  [][\A code \in Codes :
       (pins[code].found /\ ~pins[code].active)
         => /\ \A u \in Users :
                 RedemptionCount(code, u)' = RedemptionCount(code, u)
            /\ \A p \in Slots :
                 (pc[p] = "rd_insert" /\ loc[p].code = code) => dkp' = dkp]_vars

\* C15: the step in which a redeem succeeds raises the user's balance by
\* exactly the points stored with the code when it was issued, changes no
\* other balance and adds the pair's first row; a redeem that looks for the
\* pair's row when the user has redeemed the code replies "already redeemed"
\* and changes neither balances nor rows.
C15_RedeemRoundTrip ==
  [][\A p \in Slots :
       LET u == loc[p].user
           code == loc[p].code
       IN /\ (pc[p] = "rd_insert" /\ loc'[p].outcome = "ok")
               => /\ dkp' = [dkp EXCEPT ![u] = @ + pins[code].points]
                  /\ RedemptionCount(code, u) = 0
                  /\ RedemptionCount(code, u)' = 1
          /\ (pc[p] = "rd_existing" /\ pc'[p] # "rd_existing"
                /\ RedemptionCount(code, u) >= 1)
               => /\ pc'[p] = "done"
                  /\ loc'[p].outcome = "already"
                  /\ dkp' = dkp
                  /\ redemptions' = redemptions]_vars

\* A user's second redeem of a code has replied "already redeemed"; the user
\* holds the points of the code once.
C15_Witness ==
  \E p \in Slots :
    /\ pc[p] = "done"
    /\ loc[p].outcome = "already"
    /\ RedemptionCount(loc[p].code, loc[p].user) = 1
    /\ dkp[loc[p].user] = pins[loc[p].code].points
    /\ dkp[loc[p].user] > 0

\* C16: no step adds a bids row to, or changes a bids row of, an auction whose
\* status is closed or cancelled: every row the auction has after the step it
\* had before.
C16_NoBidOnTerminalAuction ==
  [][\A c \in 1..Len(auctions) :
       auctions[c].status # "open"
         => \A i \in 1..Len(bids'[c]) :
              \E j \in 1..Len(bids[c]) : bids[c][j] = bids'[c][i]]_vars

\* The bids rows of user u in auction c.
RowsOf(b, c, u) == SelectSeq(b[c], LAMBDA r : r.user_id = u)

\* C17: after every step each bids row of a blind or zerosum auction has an
\* amount >= min_bid on the increment grid and is the only row of its user;
\* an accepted /bid placed an amount within the bidder's balance, changed no
\* balance and left the pair exactly one row, holding the new amount, and the
\* rows of the others as they were; a /bid rejected for its amount or for the
\* balance changes neither bids nor balances.
C17_StoredBidsAreValid ==
  [][/\ \A c \in 1..Len(auctions) :
          auctions[c].style # "fixed"
            => \A i \in 1..Len(bids'[c]) :
                 /\ bids'[c][i].amount >= auctions[c].min_bid
                 /\ (bids'[c][i].amount - auctions[c].min_bid)
                      % auctions[c].increment = 0
                 /\ Len(RowsOf(bids', c, bids'[c][i].user_id)) = 1
     /\ \A p \in Slots :
          LET c == loc[p].a.id
              u == loc[p].user
          IN /\ (pc[p] = "bd_upsert" /\ pc'[p] # "bd_upsert")
                  => /\ loc[p].amount <= dkp[u]
                     /\ dkp' = dkp
                     /\ Len(RowsOf(bids', c, u)) = 1
                     /\ RowsOf(bids', c, u)[1].amount = loc[p].amount
                     /\ \A v \in Users \ {u} :
                          RowsOf(bids', c, v) = RowsOf(bids, c, v)
             /\ (pc[p] = "bd_bal" /\ pc'[p] = "idle")
                  => /\ loc[p].amount > dkp[u]
                     /\ bids' = bids /\ dkp' = dkp
             /\ (pc[p] = "idle" /\ loc'[p].outcome = BidTooLowReply)
                  => /\ LET a == auctions[loc'[p].chan]
                        IN \/ loc'[p].amount < a.min_bid
                           \/ (loc'[p].amount - a.min_bid) % a.increment # 0
                     /\ bids' = bids /\ dkp' = dkp]_vars

\* A /bid has been rejected for its amount on an auction that holds an
\* accepted bid of another amount.
C17_Witness ==
  \E p \in Slots :
    /\ pc[p] = "done"
    /\ loc[p].outcome = BidTooLowReply
    /\ auctions[loc[p].chan].style # "fixed"
    /\ \E i \in 1..Len(bids[loc[p].chan]) :
         bids[loc[p].chan][i].amount # loc[p].amount

\* C18: when a cycle of auto_close_task ends, every PIN that was active and
\* past its expiry when the cycle began is inactive.  (The cycle settled an
\* auction that had expired when it began: a PIN that expires no later had
\* expired then too, and no command activates a PIN again.)
C18_SweepDeactivatesExpiredPins ==
  [][(pc[Sweeper] = "sw_send" /\ pc'[Sweeper] = "idle")
       => \A code \in Codes :
            ( /\ pins[code].found
              /\ pins[code].active
              /\ pins[code].expires_at
                   <= auctions[loc[Sweeper].a.id].expires_at )
              => ~pins'[code].active]_vars

\* C20: whether or not a summary is delivered, the step after ch.send keeps
\* the settlement that was committed, and the cycle ends only when every
\* expired auction it fetched has been settled in it.
C20_SendFailureSkipsNothing ==
  [][pc[Sweeper] = "sw_send"
       => /\ auctions' = auctions /\ awards' = awards /\ dkp' = dkp
          /\ pc'[Sweeper] = "idle"
               => \A i \in 1..Len(loc[Sweeper].rows) :
                    auctions[loc[Sweeper].rows[i].id].status # "open"]_vars

\* C19: an open auction whose expires_at has passed is closed at some later
\* time, whatever sends fail and whatever cycles end with an error.
C19_ExpiredAuctionEventuallyCloses ==
  \A c \in AuctionIds :
    ( /\ c <= Len(auctions)
      /\ auctions[c].status = "open"
      /\ auctions[c].expires_at # NoTime
      /\ auctions[c].expires_at < now )
      ~> (auctions[c].status = "closed")

\* A cycle has ended having closed one expired auction and left another
\* expired auction open, for a later cycle.
C19_Witness ==
  /\ pc[Sweeper] = "idle"
  /\ \E c, d \in 1..Len(auctions) :
       /\ auctions[c].status = "closed"
       /\ auctions[d].status = "open"
       /\ auctions[d].expires_at # NoTime
       /\ auctions[d].expires_at < now

\* C21: the reply of pin_list holds exactly the codes that are active and
\* whose expires_at has not passed when it is made, each once, the sooner
\* expiry first.
C21_ListHoldsActiveUnexpired ==
  [][\A p \in Slots :
       (pc[p] = "idle" /\ loc'[p].outcome \in {"listed", PinListEmptyReply})
         => LET rows == loc'[p].rows
            IN /\ {rows[i] : i \in 1..Len(rows)}
                    = {c \in Codes : /\ pins[c].found
                                     /\ pins[c].active
                                     /\ ~PinExpired(pins[c], now)}
               /\ \A i, j \in 1..Len(rows) :
                    i < j => /\ rows[i] # rows[j]
                             /\ pins[rows[i]].expires_at
                                  <= pins[rows[j]].expires_at]_vars

\* The place of u's first bid of `amount` among the bids stored for auction c.
PlaceOf(c, u, amount) ==
  CHOOSE i \in 1..Len(placed[c]) : placed[c][i] = <<u, amount>>

\* C22: when a sealed or zero-sum auction is settled with a winner, every
\* other bidder who holds an affordable bid of the winning amount bid that
\* amount for the first time later than the winner did.
C22_TieGoesToFirstBidder ==
  [][\A c \in 1..Len(auctions) :
       ( /\ auctions[c].style # "fixed"
         /\ auctions[c].status = "open"
         /\ auctions'[c].status = "closed"
         /\ awards'[c] # <<>> )
         => LET w == awards'[c][1].winner_id
                amount == awards'[c][1].amount
            IN \A i \in 1..Len(bids[c]) :
                 ( /\ bids[c][i].user_id # w
                   /\ bids[c][i].amount = amount
                   /\ dkp[bids[c][i].user_id] >= amount )
                   => PlaceOf(c, w, amount)
                        < PlaceOf(c, bids[c][i].user_id, amount)]_vars

\* The users other than w who have a bids row of auction c.
OtherBidders(c, w) == {bids[c][i].user_id : i \in 1..Len(bids[c])} \ {w}

\* C23: the step that settles a 'zerosum' auction with a winner charges the
\* winner the amount and credits every other user who had a bid of the
\* auction when the settlement began (a bid the settlement discarded
\* included) floor(amount / number of those users), whatever that user's
\* balance; nobody else is credited.
C23_ZeroSumSharesAmongAllOthers ==
  [][\A c \in 1..Len(auctions) :
       ( /\ auctions[c].style = "zerosum"
         /\ auctions[c].status = "open"
         /\ auctions'[c].status = "closed"
         /\ awards'[c] # <<>> )
         => LET w == awards'[c][1].winner_id
                amount == awards'[c][1].amount
                others == OtherBidders(c, w)
            IN /\ dkp'[w] = dkp[w] - amount
               /\ \A u \in others :
                    dkp'[u] = dkp[u] + (amount \div Cardinality(others))
               /\ \A u \in Users \ (others \cup {w}) : dkp'[u] = dkp[u]]_vars

\* C24: a store error at a statement of a settlement after the winner was
\* chosen leaves the auction open, with every balance, bid and loot_awards
\* row as before the settlement began; and in every state an auction that is
\* closed with a loot_awards row has that winner debited that amount, and an
\* auction with a debit committed is closed.
C24_FailedSettlementLeavesNoTrace ==
  /\ [][( /\ pc[Sweeper] \in {"rs_lock", "rs_delete", "rs_close", "rs_credit"}
          /\ pc'[Sweeper] = "idle" )
         => /\ auctions'[loc[Sweeper].a.id].status = "open"
            /\ auctions' = auctions
            /\ dkp' = dkp
            /\ bids' = bids
            /\ awards' = awards
            /\ ledger' = ledger]_vars
  /\ [](\A c \in 1..Len(auctions) :
          /\ (auctions[c].status = "closed" /\ awards[c] # <<>>)
               => \E i \in 1..Len(DebitsOf(c)) :
                    /\ DebitsOf(c)[i].user_id = awards[c][1].winner_id
                    /\ DebitsOf(c)[i].amount = awards[c][1].amount
          /\ DebitsOf(c) # <<>> => auctions[c].status # "open")

\* A settlement failed at the credit of a loser, after the winner's debit,
\* the close and the loot_awards row were pending: the cycle has ended, the
\* auctions are open and hold their bids, nobody has paid or received.
C24_Witness ==
  /\ pc[Sweeper] = "idle"
  /\ loc[Sweeper].outcome = "rs_credit"
  /\ \A c \in 1..Len(auctions) :
       auctions[c].status = "open" /\ awards[c] = <<>>
  /\ \A u \in Users : dkp[u] = InitBalance

\* C25: every discard leaves the settlement one bid fewer to consider, a
\* settlement never discards more bids than the auction holds, and a
\* settlement that has begun on an open auction ends with the auction closed.
C25_SettlementTerminates ==
  /\ [][\A p \in Slots :
         (pc[p] = "rs_delete" /\ pc'[p] # "rs_delete")
           => Len(FetchBids(p, loc[p].a.id)')
                = Len(FetchBids(p, loc[p].a.id)) - 1]_vars
  /\ [](\A p \in Slots :
          loc[p].a.id # 0
            => Cardinality(tx[p].bidDel) <= Len(bids[loc[p].a.id]))
  /\ \A c \in AuctionIds :
       (\E p \in Slots : /\ pc[p] = "rs_fetch"
                          /\ loc[p].a.id = c
                          /\ loc[p].a.status = "open")
         ~> (auctions[c].status = "closed")

\* A settlement has discarded every bid of the auction and is about to close
\* it without a winner.
C25_Witness ==
  \E p \in Slots :
    /\ pc[p] = "rs_empty"
    /\ tx[p].bidDel # {}
    /\ Cardinality(tx[p].bidDel) = Len(bids[loc[p].a.id])

\* C26: no settlement ever waits for a row lock in a cycle of waiting
\* settlements, and no settlement that has begun is ended by the store
\* before it returns: every step that leaves a statement of resolve_auction
\* goes on to the next statement or returns with its writes committed.
C26_SettlementsNeverDeadlock ==
  /\ [](\A p \in Slots : ~Deadlocked(p))
  /\ [][\A p \in Slots :
         (tx[p].active /\ pc'[p] = "idle")
           => \E c \in 1..Len(auctions) :
                auctions[c].status = "open" /\ auctions'[c].status = "closed"]_vars

====
